---- MODULE Spec2Model ----
(***************************************************************************)
(* Positioning-and-interaction engine of the message-card chart plugin:    *)
(* the message store, the two anchor resolvers (fixed, draggable), the hit *)
(* tester, the pointer-driven drag/click/hover state machine of            *)
(* DiscordMessagePrimitive and the animation-frame scheduler.              *)
(*                                                                         *)
(* Handlers are operators from a world record w to the world after the     *)
(* handler returned, so that a handler that calls another one              *)
(* (updatePositioningMode -> _onDocumentMouseUp, detached ->               *)
(* _detachDragListeners -> _removeDocumentDragListeners) is the            *)
(* composition of the operators.  The actions commit the resulting world   *)
(* to the variables.                                                       *)
(*                                                                         *)
(* The repository has two DraggablePositioningStrategy classes behind the  *)
(* same IPositioningStrategy interface: the offset-retaining one of        *)
(* social-message (handleMouseUp keeps the offset and the anchor) and the  *)
(* anchor-rewriting one of discord-message (handleMouseUp converts the     *)
(* position back to time/price and deletes the offset).  Spec drives the   *)
(* primitive with the first, SpecRewrite with the second; SpecHit calls    *)
(* the hit tester on chosen stores and offsets, SpecView the pane view;    *)
(* SpecStore drives the message store on its own, SpecSched the            *)
(* animation-frame scheduler with named callbacks.                         *)
(***************************************************************************)
EXTENDS Integers, Sequences, FiniteSets, TLC

VARIABLES
    variant,    \* which DraggablePositioningStrategy class is linked in
    workload,   \* what the caller and the user do in this run (never changes)
    prim,       \* fields of DiscordMessagePrimitive
    strategy,   \* the active IPositioningStrategy instance (this._strategy)
    state,      \* MessagesState (this._state)
    dom,        \* listeners attached to the chart element and the document
    scheduler,  \* AnimationScheduler (this._animationScheduler)
    host,       \* host chart options and the event loop's timer queue
    fx,         \* observable effects of the most recent handler
    hist        \* history of the current pointer gesture (for the properties)

vars == <<variant, workload, prim, strategy, state, dom, scheduler, host, fx, hist>>

\* null: for strings (ids, urls), for object references, for coordinates.
Null == "null"
NullObj == [null |-> TRUE]
NullCoord == 0 - 1000

(***************************************************************************)
(* Bounds of the model.                                                    *)
(***************************************************************************)
CardWidth == 4
CardPadding == 1
LineHeight == 1
MaxTime == 2
MaxPrice == 1
MaxLoad == 3

(***************************************************************************)
(* Program constant.                                                       *)
(***************************************************************************)
DragThreshold == 5

Ids == {"m1", "m2"}
Times == 0 .. MaxTime
Prices == 0 .. MaxPrice

\* A run works with the first n message ids and up to MaxLoad - n pointer
\* gestures: one card dragged twice, or two cards and one drag.
Workloads ==
    { [ids |-> {"m1"}, gestures |-> MaxLoad - 1],
      [ids |-> Ids, gestures |-> MaxLoad - 2] }

UrlOf == [i \in Ids |-> IF i = "m1" THEN "url1" ELSE "url2"]

\* Anchors a caller gives a message: those inside the visible range, one with
\* the time and one with the price outside it.
Anchors ==
    { a \in [time : Times, price : Prices] :
        (a.time = 0 => a.price = 1) /\ (a.price = 0 => a.time = 1) }

\* Messages a caller can pass to addMessage / updateMessage.
MessageInputs ==
    { [id |-> i, time |-> a.time, price |-> a.price, discordUrl |-> UrlOf[i]] :
        i \in Ids, a \in Anchors }

\* getBoundingClientRect() of the chart element: client = local + rect origin.
RectLeft == 1
RectTop == 2

\* Pointer positions in chart-local coordinates and as client coordinates:
\* (3,0) and (3,4) are 3 and 5 pixels from (0,0), and 4 pixels apart.
Points == { [x |-> 0, y |-> 0], [x |-> 3, y |-> 0], [x |-> 3, y |-> 4] }
ClientPoints ==
    { [clientX |-> p.x + RectLeft, clientY |-> p.y + RectTop] : p \in Points }

(***************************************************************************)
(* Host coordinate conversion (external collaborator).  Time 0 and price 0 *)
(* stand for anchors outside the visible range: the host returns null.     *)
(***************************************************************************)
TimeToCoordinate(t) == IF t = 0 THEN NullCoord ELSE (t - 1) * 3
PriceToCoordinate(p) == IF p = 0 THEN NullCoord ELSE (p - 1) * 4

CoordinateToTime(x) ==
    IF x >= 0 /\ x % 3 = 0 /\ ((x \div 3) + 1) \in Times
    THEN (x \div 3) + 1 ELSE NullCoord
CoordinateToPrice(y) ==
    IF y >= 0 /\ y % 4 = 0 /\ ((y \div 4) + 1) \in Prices
    THEN (y \div 4) + 1 ELSE NullCoord

(***************************************************************************)
(* Layout.                                                                 *)
(***************************************************************************)
calculateCardHeight == CardPadding * 2 + LineHeight * 3

(***************************************************************************)
(* Positioning strategies.                                                 *)
(***************************************************************************)
NoOffsets == [i \in Ids |-> NullObj]

FixedPositioningStrategy ==
    [kind |-> "fixed", dragState |-> NullObj, pixelOffsets |-> NoOffsets]

DraggablePositioningStrategy ==
    [kind |-> "draggable", dragState |-> NullObj, pixelOffsets |-> NoOffsets]

\* Variant: a coordinate the host cannot convert is replaced by 0.
FixedResolveAnchorDefaultsZero(message) ==
    [x |-> IF TimeToCoordinate(message.time) = NullCoord THEN 0
           ELSE TimeToCoordinate(message.time),
     y |-> IF PriceToCoordinate(message.price) = NullCoord THEN 0
           ELSE PriceToCoordinate(message.price)]

\* FixedPositioningStrategy.resolveAnchor
FixedResolveAnchor(message) ==
    [x |-> TimeToCoordinate(message.time), y |-> PriceToCoordinate(message.price)]

\* Variant: the pixel offset is not applied.
DraggableResolveAnchorNoOffset(strat, message) ==
    [x |-> TimeToCoordinate(message.time), y |-> PriceToCoordinate(message.price)]

\* DraggablePositioningStrategy.resolveAnchor
DraggableResolveAnchor(strat, message) ==
    LET baseX == TimeToCoordinate(message.time)
        baseY == PriceToCoordinate(message.price)
        offset == strat.pixelOffsets[message.id]
    IN  IF offset # NullObj /\ baseX # NullCoord /\ baseY # NullCoord
        THEN [x |-> baseX + offset.offsetX, y |-> baseY + offset.offsetY]
        ELSE [x |-> baseX, y |-> baseY]

\* this._strategy.resolveAnchor(message, chart, series)
ResolveAnchor(strat, message) ==
    IF strat.kind = "fixed"
    THEN FixedResolveAnchor(message)
    ELSE DraggableResolveAnchor(strat, message)

\* DraggablePositioningStrategy.handleMouseDown; the offset-retaining class
\* records the offset in effect, the anchor-rewriting class starts from 0.
DraggableHandleMouseDown(v, strat, message, x, y) ==
    LET anchor == DraggableResolveAnchor(strat, message)
        existing == strat.pixelOffsets[message.id]
        existingOffset ==
            IF v = "retain" /\ existing # NullObj
            THEN existing ELSE [offsetX |-> 0, offsetY |-> 0]
    IN  IF anchor.x = NullCoord \/ anchor.y = NullCoord
        THEN strat
        ELSE [strat EXCEPT !.dragState =
                [messageId |-> message.id, startX |-> x, startY |-> y,
                 initialOffsetX |-> existingOffset.offsetX,
                 initialOffsetY |-> existingOffset.offsetY]]

\* Variant: the move is applied to whatever message it is called with.
DraggableHandleMouseMoveAnyMessage(strat, message, x, y) ==
    IF strat.dragState = NullObj
    THEN strat
    ELSE LET dragDeltaX == x - strat.dragState.startX
             dragDeltaY == y - strat.dragState.startY
             newOffsetX == strat.dragState.initialOffsetX + dragDeltaX
             newOffsetY == strat.dragState.initialOffsetY + dragDeltaY
         IN  [strat EXCEPT !.pixelOffsets[message.id] =
                 [offsetX |-> newOffsetX, offsetY |-> newOffsetY]]

\* DraggablePositioningStrategy.handleMouseMove
DraggableHandleMouseMove(strat, message, x, y) ==
    IF strat.dragState = NullObj \/ strat.dragState.messageId # message.id
    THEN strat
    ELSE LET dragDeltaX == x - strat.dragState.startX
             dragDeltaY == y - strat.dragState.startY
             newOffsetX == strat.dragState.initialOffsetX + dragDeltaX
             newOffsetY == strat.dragState.initialOffsetY + dragDeltaY
         IN  [strat EXCEPT !.pixelOffsets[message.id] =
                 [offsetX |-> newOffsetX, offsetY |-> newOffsetY]]

\* Variant: the anchor-rewriting class rewrites whichever of time and price
\* converts, and deletes the offset when either does.
DraggableHandleMouseUpPartial(v, strat, message) ==
    IF strat.dragState = NullObj \/ strat.dragState.messageId # message.id
    THEN [strat |-> strat, message |-> message]
    ELSE IF v = "retain"
    THEN [strat |-> [strat EXCEPT !.dragState = NullObj], message |-> message]
    ELSE LET anchor == DraggableResolveAnchor(strat, message)
             newTime == IF anchor.x # NullCoord THEN CoordinateToTime(anchor.x) ELSE NullCoord
             newPrice == IF anchor.y # NullCoord THEN CoordinateToPrice(anchor.y) ELSE NullCoord
         IN  IF anchor.x # NullCoord /\ anchor.y # NullCoord
                 /\ (newTime # NullCoord \/ newPrice # NullCoord)
             THEN [strat |-> [strat EXCEPT !.dragState = NullObj,
                                           !.pixelOffsets[message.id] = NullObj],
                   message |-> [message EXCEPT
                       !.time = IF newTime # NullCoord THEN newTime ELSE @,
                       !.price = IF newPrice # NullCoord THEN newPrice ELSE @]]
             ELSE [strat |-> [strat EXCEPT !.dragState = NullObj], message |-> message]

\* DraggablePositioningStrategy.handleMouseUp: the pair <<strategy, message>>
\* after the call (the anchor-rewriting class mutates the message).
DraggableHandleMouseUp(v, strat, message) ==
    IF strat.dragState = NullObj \/ strat.dragState.messageId # message.id
    THEN [strat |-> strat, message |-> message]
    ELSE IF v = "retain"
    THEN [strat |-> [strat EXCEPT !.dragState = NullObj], message |-> message]
    ELSE LET anchor == DraggableResolveAnchor(strat, message)
             newTime == IF anchor.x # NullCoord THEN CoordinateToTime(anchor.x) ELSE NullCoord
             newPrice == IF anchor.y # NullCoord THEN CoordinateToPrice(anchor.y) ELSE NullCoord
         IN  IF anchor.x # NullCoord /\ anchor.y # NullCoord /\ newTime # NullCoord /\ newPrice # NullCoord
             THEN [strat |-> [strat EXCEPT !.dragState = NullObj,
                                           !.pixelOffsets[message.id] = NullObj],
                   message |-> [message EXCEPT !.time = newTime, !.price = newPrice]]
             ELSE [strat |-> [strat EXCEPT !.dragState = NullObj], message |-> message]

\* strategy.detach?.()
StrategyDetach(strat) ==
    IF strat.kind = "fixed" THEN strat
    ELSE [strat EXCEPT !.dragState = NullObj, !.pixelOffsets = NoOffsets]

(***************************************************************************)
(* The world a handler runs in, and the effects a handler can have.        *)
(***************************************************************************)
\* opened: the URL the most recent handler passed to window.open;
\* updateRequested: whether it called requestUpdate; changed: how often it
\* fired messagesChanged; calls: the calls it made, in order, to methods of
\* the active strategy and to the store's updateMessage, and "new" where it
\* replaced the strategy by a new instance.
NoFx == [opened |-> Null, updateRequested |-> FALSE, changed |-> 0,
         calls |-> <<>>]

World ==
    [variant |-> variant, prim |-> prim, strategy |-> strategy, state |-> state,
     dom |-> dom, scheduler |-> scheduler, host |-> host, fx |-> NoFx]

\* PluginBase.requestUpdate(): asks the host for a redraw.
RequestUpdate(w) == [w EXCEPT !.fx.updateRequested = TRUE]

\* The handler makes the named call.
Called(w, name) == [w EXCEPT !.fx.calls = Append(@, name)]

(***************************************************************************)
(* MessagesState.  messages is the Map (its entries in insertion order),   *)
(* messagesArray the array messages() returns.                             *)
(***************************************************************************)
MapHas(map, id) == \E i \in 1 .. Len(map) : map[i].id = id

\* Variant: setting an existing key moves its entry to the end.
MapSetMovesLast(map, message) ==
    Append(SelectSeq(map, LAMBDA e : e.id # message.id), message)

\* Map.set: an existing key keeps its position, a new key goes last.
MapSet(map, message) ==
    IF MapHas(map, message.id)
    THEN [i \in 1 .. Len(map) |->
            IF map[i].id = message.id THEN message ELSE map[i]]
    ELSE Append(map, message)

MapDelete(map, id) == SelectSeq(map, LAMBDA e : e.id # id)

\* MessagesState._updateMessagesArray
UpdateMessagesArray(w) == [w EXCEPT !.state.messagesArray = w.state.messages]

\* this._messagesChanged.fire(): the store's own subscriber rebuilds the
\* array, then the primitive's subscriber requests an update.
FireMessagesChanged(w) ==
    LET w1 == IF w.state.arraySubscribed THEN UpdateMessagesArray(w) ELSE w
        w2 == IF w1.state.primSubscribed THEN RequestUpdate(w1) ELSE w1
    IN  [w2 EXCEPT !.fx.changed = @ + 1]

\* MessagesState.addMessage
StateAddMessage(w, message) ==
    FireMessagesChanged([w EXCEPT !.state.messages = MapSet(@, message)])

\* MessagesState.removeMessage
StateRemoveMessage(w, id) ==
    IF ~MapHas(w.state.messages, id) THEN w
    ELSE FireMessagesChanged([w EXCEPT !.state.messages = MapDelete(@, id)])

\* Variant: updateMessage without the has() test.
StateUpdateMessageUpsert(w, message) ==
    FireMessagesChanged([w EXCEPT !.state.messages = MapSet(@, message)])

\* MessagesState.updateMessage
StateUpdateMessage(w, message) ==
    IF ~MapHas(w.state.messages, message.id) THEN w
    ELSE FireMessagesChanged([w EXCEPT !.state.messages = MapSet(@, message)])

\* MessagesState.messages()
Messages(w) == w.state.messagesArray

\* MessagesState.destroy
StateDestroy(w) == [w EXCEPT !.state.arraySubscribed = FALSE]

(***************************************************************************)
(* AnimationScheduler.  rafId and callback are TRUE when non-null.         *)
(***************************************************************************)
SchedulerSchedule(w) ==
    [w EXCEPT !.scheduler = [rafId |-> TRUE, callback |-> TRUE]]

SchedulerCancel(w) ==
    [w EXCEPT !.scheduler = [rafId |-> FALSE, callback |-> FALSE]]

SchedulerIsPending(w) == w.scheduler.rafId

\* The requestAnimationFrame callback installed by schedule().
SchedulerFrame(w) ==
    LET w1 == [w EXCEPT !.scheduler.rafId = FALSE]
    IN  IF w1.scheduler.callback
        THEN [RequestUpdate(w1) EXCEPT !.scheduler.callback = FALSE]
        ELSE w1

(***************************************************************************)
(* Hit tester.                                                             *)
(***************************************************************************)
\* Variant: the box without its right and bottom edges.
CardContainsHalfOpen(w, message, x, y) ==
    LET anchor == ResolveAnchor(w.strategy, message)
    IN  /\ anchor.x # NullCoord
        /\ anchor.y # NullCoord
        /\ x >= anchor.x
        /\ x < anchor.x + CardWidth
        /\ y >= anchor.y
        /\ y < anchor.y + calculateCardHeight

\* The box test of _messageAtPoint for one message.
CardContains(w, message, x, y) ==
    LET anchor == ResolveAnchor(w.strategy, message)
    IN  /\ anchor.x # NullCoord
        /\ anchor.y # NullCoord
        /\ x >= anchor.x
        /\ x <= anchor.x + CardWidth
        /\ y >= anchor.y
        /\ y <= anchor.y + calculateCardHeight

\* Variant: the loop keeps the last message whose box contains the point.
RECURSIVE MessageAtPointLastFrom(_, _, _, _)
MessageAtPointLastFrom(w, x, y, i) ==
    IF i > Len(Messages(w)) THEN NullObj
    ELSE LET later == MessageAtPointLastFrom(w, x, y, i + 1)
         IN  IF later # NullObj THEN later
             ELSE IF CardContains(w, Messages(w)[i], x, y) THEN Messages(w)[i]
             ELSE NullObj

\* The loop of _messageAtPoint from the i-th message on.
RECURSIVE MessageAtPointFrom(_, _, _, _)
MessageAtPointFrom(w, x, y, i) ==
    IF i > Len(Messages(w)) THEN NullObj
    ELSE IF CardContains(w, Messages(w)[i], x, y) THEN Messages(w)[i]
    ELSE MessageAtPointFrom(w, x, y, i + 1)

\* DiscordMessagePrimitive._messageAtPoint
MessageAtPoint(w, x, y) == MessageAtPointFrom(w, x, y, 1)

\* The template string `discord-message-${message.id}`.
ExternalId(id) == <<"discord-message-", id>>

\* DiscordMessagePrimitive.hitTest
HitTest(w, x, y) ==
    LET message == MessageAtPoint(w, x, y)
    IN  IF message # NullObj
        THEN [externalId |-> ExternalId(message.id), zOrder |-> "top"]
        ELSE NullObj

(***************************************************************************)
(* Pane view: the array update() hands to the renderer (the options field  *)
(* of each record, the same object for all, is left out).                  *)
(***************************************************************************)
\* Variant: the loop without the test for null coordinates.
RECURSIVE PaneViewUpdateFromAll(_, _)
PaneViewUpdateFromAll(w, i) ==
    IF i > Len(Messages(w)) THEN <<>>
    ELSE LET message == Messages(w)[i]
             anchor == ResolveAnchor(w.strategy, message)
         IN  <<[message |-> message,
                x |-> anchor.x,
                y |-> anchor.y,
                anchorX |-> TimeToCoordinate(message.time),
                anchorY |-> PriceToCoordinate(message.price),
                isHovered |-> (message.id = w.prim.hoveredMessageId)]>>
             \o PaneViewUpdateFromAll(w, i + 1)

\* The loop of DiscordMessagePaneView.update from the i-th message on.
RECURSIVE PaneViewUpdateFrom(_, _)
PaneViewUpdateFrom(w, i) ==
    IF i > Len(Messages(w)) THEN <<>>
    ELSE LET message == Messages(w)[i]
             anchor == ResolveAnchor(w.strategy, message)
             rest == PaneViewUpdateFrom(w, i + 1)
         IN  IF anchor.x # NullCoord /\ anchor.y # NullCoord
             THEN <<[message |-> message,
                     x |-> anchor.x,
                     y |-> anchor.y,
                     anchorX |-> TimeToCoordinate(message.time),
                     anchorY |-> PriceToCoordinate(message.price),
                     isHovered |-> (message.id = w.prim.hoveredMessageId)]>>
                  \o rest
             ELSE rest

\* DiscordMessagePaneView.update
PaneViewUpdate(w) == PaneViewUpdateFrom(w, 1)

(***************************************************************************)
(* DiscordMessagePrimitive: listener management.  A handler field is TRUE  *)
(* when it holds a bound function; dom counts the functions attached.      *)
(* bind() makes a new function on every call, so overwriting a handler     *)
(* field while its function is attached leaves that function attached.     *)
(***************************************************************************)
\* _attachDragListeners
AttachDragListeners(w) ==
    [w EXCEPT !.prim.mouseDownHandler = TRUE, !.dom.mousedown = @ + 1]

\* Variant: the cleanup also schedules the deferred reset of the confirmed
\* flag.
RemoveDocumentDragListenersWithReset(w) ==
    LET w1 == IF w.prim.documentMouseMoveHandler
              THEN [w EXCEPT !.dom.mousemove = @ - 1,
                             !.prim.documentMouseMoveHandler = FALSE]
              ELSE w
        w2 == [w1 EXCEPT !.host.timers = @ + 1]
    IN  IF w2.prim.documentMouseUpHandler
        THEN [w2 EXCEPT !.dom.mouseup = @ - 1,
                        !.prim.documentMouseUpHandler = FALSE]
        ELSE w2

\* _removeDocumentDragListeners
RemoveDocumentDragListeners(w) ==
    LET w1 == IF w.prim.documentMouseMoveHandler
              THEN [w EXCEPT !.dom.mousemove = @ - 1,
                             !.prim.documentMouseMoveHandler = FALSE]
              ELSE w
    IN  IF w1.prim.documentMouseUpHandler
        THEN [w1 EXCEPT !.dom.mouseup = @ - 1,
                        !.prim.documentMouseUpHandler = FALSE]
        ELSE w1

\* Variant: the listeners are removed and the drag fields are left as they are.
DetachDragListenersOnly(w) ==
    LET w1 == RemoveDocumentDragListeners(w)
    IN  IF w1.prim.mouseDownHandler
        THEN [w1 EXCEPT !.dom.mousedown = @ - 1,
                        !.prim.mouseDownHandler = FALSE]
        ELSE w1

\* _detachDragListeners
DetachDragListeners(w) ==
    LET w1 == RemoveDocumentDragListeners(w)
        w2 == IF w1.prim.mouseDownHandler
              THEN [w1 EXCEPT !.dom.mousedown = @ - 1,
                              !.prim.mouseDownHandler = FALSE]
              ELSE w1
    IN  [w2 EXCEPT !.prim.dragState = NullObj,
                   !.prim.isDragging = FALSE,
                   !.prim.dragStartPos = NullObj]

(***************************************************************************)
(* DiscordMessagePrimitive: the drag state machine.                        *)
(***************************************************************************)
\* this._strategy.handleMouseUp?.(...), ended being what the method returns
\* and leaves in the strategy.
StrategyHandleMouseUp(w, ended) ==
    IF w.strategy.kind = "fixed" THEN w
    ELSE Called([w EXCEPT !.strategy = ended.strat], "handleMouseUp")

\* this._strategy.detach?.()
StrategyDetachCall(w) ==
    IF w.strategy.kind = "fixed" THEN w
    ELSE Called([w EXCEPT !.strategy = StrategyDetach(@)], "detach")

\* this._strategy.handleMouseDown?.(...)
StrategyHandleMouseDown(w, message, x, y) ==
    IF w.strategy.kind = "fixed" THEN w
    ELSE Called([w EXCEPT !.strategy =
                    DraggableHandleMouseDown(w.variant, w.strategy, message, x, y)],
                "handleMouseDown")

\* this._strategy.handleMouseMove?.(...)
StrategyHandleMouseMove(w, message, x, y) ==
    IF w.strategy.kind = "fixed" THEN w
    ELSE Called([w EXCEPT !.strategy =
                    DraggableHandleMouseMove(w.strategy, message, x, y)],
                "handleMouseMove")

\* _onMouseDown
OnMouseDown(w, event) ==
    LET x == event.clientX - RectLeft
        y == event.clientY - RectTop
        message == MessageAtPoint(w, x, y)
    IN  IF message = NullObj THEN w
        ELSE LET w1 == [w EXCEPT
                        !.host.pressedMouseMove = FALSE,
                        !.prim.dragState =
                            [messageId |-> message.id, message |-> message],
                        !.prim.isDragging = FALSE,
                        !.prim.dragStartPos =
                            [x |-> event.clientX, y |-> event.clientY]]
                 w2 == StrategyHandleMouseDown(w1, message, x, y)
             IN  [w2 EXCEPT !.prim.documentMouseMoveHandler = TRUE,
                            !.prim.documentMouseUpHandler = TRUE,
                            !.dom.mousemove = @ + 1,
                            !.dom.mouseup = @ + 1]

\* Variant: the squared distance compared with the threshold itself.
BelowThresholdUnsquared(dx, dy) == dx * dx + dy * dy < DragThreshold

\* Math.sqrt(dx * dx + dy * dy) < this._dragThreshold, on integer pixels.
BelowThreshold(dx, dy) == dx * dx + dy * dy < DragThreshold * DragThreshold

\* _onDocumentMouseMove
OnDocumentMouseMove(w, event) ==
    IF w.prim.dragState = NullObj \/ w.prim.dragStartPos = NullObj THEN w
    ELSE IF /\ ~w.prim.isDragging
            /\ BelowThreshold(event.clientX - w.prim.dragStartPos.x,
                              event.clientY - w.prim.dragStartPos.y)
    THEN w
    ELSE LET w1 == [w EXCEPT !.prim.isDragging = TRUE]
             w2 == StrategyHandleMouseMove(w1, w1.prim.dragState.message,
                                           event.clientX - RectLeft,
                                           event.clientY - RectTop)
         IN  SchedulerSchedule(w2)

\* Variant: host pan/scroll is re-enabled only after a confirmed drag.
OnDocumentMouseUpConfirmedOnly(w) ==
    IF w.prim.dragState = NullObj THEN w
    ELSE LET ended ==
                 IF w.strategy.kind = "fixed"
                 THEN [strat |-> w.strategy, message |-> w.prim.dragState.message]
                 ELSE DraggableHandleMouseUp(w.variant, w.strategy,
                                             w.prim.dragState.message)
             w0 == StrategyHandleMouseUp(w, ended)
             w1 == IF w.prim.isDragging
                   THEN [StateUpdateMessage(Called(w0, "updateMessage"),
                                            ended.message)
                            EXCEPT !.host.pressedMouseMove = TRUE]
                   ELSE w
             w3 == RemoveDocumentDragListeners(w1)
             w4 == [w3 EXCEPT !.prim.dragState = NullObj,
                              !.prim.dragStartPos = NullObj,
                              !.host.timers = @ + 1]
         IN  RequestUpdate(w4)

\* Variant: without the early return for a missing Drag Record.
OnDocumentMouseUpUnguarded(w) ==
    IF w.prim.dragState = NullObj
    THEN RequestUpdate(
             [RemoveDocumentDragListeners(
                  [w EXCEPT !.host.pressedMouseMove = TRUE])
                 EXCEPT !.prim.dragStartPos = NullObj,
                        !.host.timers = @ + 1])
    ELSE LET ended ==
                 IF w.strategy.kind = "fixed"
                 THEN [strat |-> w.strategy, message |-> w.prim.dragState.message]
                 ELSE DraggableHandleMouseUp(w.variant, w.strategy,
                                             w.prim.dragState.message)
             w0 == StrategyHandleMouseUp(w, ended)
             w1 == IF w.prim.isDragging
                   THEN StateUpdateMessage(Called(w0, "updateMessage"),
                                           ended.message)
                   ELSE w
             w2 == [w1 EXCEPT !.host.pressedMouseMove = TRUE]
             w3 == RemoveDocumentDragListeners(w2)
             w4 == [w3 EXCEPT !.prim.dragState = NullObj,
                              !.prim.dragStartPos = NullObj,
                              !.host.timers = @ + 1]
         IN  RequestUpdate(w4)

\* _onDocumentMouseUp
OnDocumentMouseUp(w) ==
    IF w.prim.dragState = NullObj THEN w
    ELSE LET ended ==
                 IF w.strategy.kind = "fixed"
                 THEN [strat |-> w.strategy, message |-> w.prim.dragState.message]
                 ELSE DraggableHandleMouseUp(w.variant, w.strategy,
                                             w.prim.dragState.message)
             w0 == StrategyHandleMouseUp(w, ended)
             w1 == IF w.prim.isDragging
                   THEN StateUpdateMessage(Called(w0, "updateMessage"),
                                           ended.message)
                   ELSE w
             w2 == [w1 EXCEPT !.host.pressedMouseMove = TRUE]
             w3 == RemoveDocumentDragListeners(w2)
             w4 == [w3 EXCEPT !.prim.dragState = NullObj,
                              !.prim.dragStartPos = NullObj,
                              !.host.timers = @ + 1]
         IN  RequestUpdate(w4)

\* The setTimeout(..., 0) callback of _onDocumentMouseUp.
ResetIsDragging(w) == [w EXCEPT !.prim.isDragging = FALSE]

\* _clickHandler; point is NullObj when param.point is undefined.
ClickHandler(w, point) ==
    IF point = NullObj THEN w
    ELSE IF w.prim.isDragging THEN w
    ELSE LET message == MessageAtPoint(w, point.x, point.y)
         IN  IF message # NullObj
             THEN [w EXCEPT !.fx.opened = message.discordUrl]
             ELSE w

\* Sets _hoveredMessageId and requests an update when it changes.
SetHovered(w, newHoveredId) ==
    IF w.prim.hoveredMessageId # newHoveredId
    THEN RequestUpdate([w EXCEPT !.prim.hoveredMessageId = newHoveredId])
    ELSE w

\* Variant: the hover id is not pinned to the dragged card.
OnCrosshairMoveUnpinned(w, point) ==
    IF point = NullObj THEN SetHovered(w, Null)
    ELSE LET message == MessageAtPoint(w, point.x, point.y)
         IN  SetHovered(w, IF message # NullObj THEN message.id ELSE Null)

\* _onCrosshairMove
OnCrosshairMove(w, point) ==
    IF w.prim.dragState # NullObj /\ w.prim.isDragging
    THEN SetHovered(w, w.prim.dragState.message.id)
    ELSE IF point = NullObj THEN SetHovered(w, Null)
    ELSE LET message == MessageAtPoint(w, point.x, point.y)
         IN  SetHovered(w, IF message # NullObj THEN message.id ELSE Null)

(***************************************************************************)
(* DiscordMessagePrimitive: mode switch and lifecycle.                     *)
(***************************************************************************)
\* updatePositioningMode: a drag in progress is ended by a synthetic mouseup.
ForceEndDrag(w) ==
    IF w.prim.dragState # NullObj THEN OnDocumentMouseUp(w) ELSE w

\* updatePositioningMode: the drag listeners are detached when
\* _options.positioningMode is draggable.
DetachIfDraggable(w) ==
    IF w.prim.positioningMode = "draggable" THEN DetachDragListeners(w) ELSE w

\* updatePositioningMode: the drag listeners are attached when the new mode
\* is draggable and the chart is available.
AttachIfDraggable(w, mode) ==
    IF mode = "draggable" /\ w.prim.phase = "attached"
    THEN AttachDragListeners(w) ELSE w

\* updatePositioningMode: the strategy of the new mode is created.
NewStrategy(w, mode) ==
    Called([w EXCEPT !.strategy =
               IF mode = "fixed" THEN FixedPositioningStrategy
               ELSE DraggablePositioningStrategy],
           "new")

\* Variant: the strategy is replaced first, the drag in progress ended after.
UpdatePositioningModeSwapFirst(w, mode) ==
    LET w2 == IF w.prim.positioningMode = "draggable"
              THEN [DetachDragListeners(w) EXCEPT
                        !.prim.dragState = w.prim.dragState,
                        !.prim.isDragging = w.prim.isDragging,
                        !.prim.dragStartPos = w.prim.dragStartPos]
              ELSE w
    IN  RequestUpdate(
            AttachIfDraggable(
                ForceEndDrag(NewStrategy(StrategyDetachCall(w2), mode)), mode))

\* updatePositioningMode
UpdatePositioningMode(w, mode) ==
    RequestUpdate(
        AttachIfDraggable(
            NewStrategy(StrategyDetachCall(DetachIfDraggable(ForceEndDrag(w))),
                        mode),
            mode))

\* setPositioningMode
SetPositioningModeOp(w, mode) ==
    RequestUpdate(
        UpdatePositioningMode([w EXCEPT !.prim.positioningMode = mode], mode))

\* applyOptions; mode is Null when the partial options carry no mode.
ApplyOptionsOp(w, mode) ==
    IF mode = Null THEN RequestUpdate(w)
    ELSE RequestUpdate(
            UpdatePositioningMode([w EXCEPT !.prim.positioningMode = mode], mode))

\* attached
AttachedOp(w) ==
    LET w1 == [w EXCEPT !.prim.phase = "attached",
                        !.prim.clickSubscribed = TRUE,
                        !.prim.crosshairMoveHandler = TRUE]
    IN  IF w1.prim.positioningMode = "draggable"
        THEN AttachDragListeners(w1) ELSE w1

\* detached
DetachedOp(w) ==
    LET w1 == RemoveDocumentDragListeners(w)
        w2 == DetachDragListeners(w1)
        w3 == SchedulerCancel(w2)
        w4 == StrategyDetachCall(w3)
    IN  [w4 EXCEPT !.prim.clickSubscribed = FALSE,
                   !.prim.crosshairMoveHandler = FALSE,
                   !.state.primSubscribed = FALSE,
                   !.state.arraySubscribed = FALSE,
                   !.prim.phase = "detached"]

(***************************************************************************)
(* History of the pointer gesture in progress, kept for the properties     *)
(* only; no handler reads it.                                              *)
(*   phase   "down" from a pointer-down that created a Drag Record until   *)
(*           its release, "up" right after the release, "click" right      *)
(*           after a click that directly followed the release              *)
(*   id      the card the pointer went down on                             *)
(*   start   pointer position of the pointer-down                          *)
(*   last    pointer position of the latest global move (start if none);   *)
(*           in phase "click" the clicked point                            *)
(*   far     the latest global move was >= DragThreshold from start        *)
(*   everFar some global move of the gesture was >= DragThreshold away     *)
(*   offsetsAtDown  the Pixel Offset Map at the pointer-down               *)
(*   sum     per message, the sum of (last - start) over the gestures that *)
(*           moved >= DragThreshold, since the resolver was created;       *)
(*           NullObj once the offset stopped matching it                   *)
(*   gestures  number of pointer-downs that created a Drag Record         *)
(*   anchors per message, the (time, price) last passed to addMessage or   *)
(*           updateMessage                                                 *)
(***************************************************************************)
Zero == [offsetX |-> 0, offsetY |-> 0]
NoSums == [i \in Ids |-> Zero]

IdleHist(sum, n, anchors) ==
    [phase |-> "idle", id |-> Null, start |-> NullObj, last |-> NullObj,
     far |-> FALSE, everFar |-> FALSE, offsetsAtDown |-> NoOffsets,
     sum |-> sum, gestures |-> n, anchors |-> anchors]

\* The offset in effect for a message: zero when it has no entry.
OffsetOf(offsets, id) == IF offsets[id] = NullObj THEN Zero ELSE offsets[id]

\* hist.sum after the gesture recorded in h ended, given the offsets then.
FoldGesture(h, offsets) ==
    IF h.phase # "down" \/ ~h.everFar \/ h.sum[h.id] = NullObj THEN h.sum
    ELSE LET s == [offsetX |-> h.sum[h.id].offsetX + (h.last.clientX - h.start.clientX),
                   offsetY |-> h.sum[h.id].offsetY + (h.last.clientY - h.start.clientY)]
         IN  [h.sum EXCEPT ![h.id] =
                 IF s = OffsetOf(offsets, h.id) THEN s ELSE NullObj]

\* The pointer at b is at least 5 px from the pointer at a.
Far(a, b) ==
    (b.clientX - a.clientX) * (b.clientX - a.clientX)
        + (b.clientY - a.clientY) * (b.clientY - a.clientY) >= 25

\* Events outside a gesture end the "up" and "click" phases.
Settle(h) ==
    IF h.phase = "down" THEN h ELSE IdleHist(h.sum, h.gestures, h.anchors)

Commit(w, h) ==
    /\ variant' = variant
    /\ workload' = workload
    /\ prim' = w.prim
    /\ strategy' = w.strategy
    /\ state' = w.state
    /\ dom' = w.dom
    /\ scheduler' = w.scheduler
    /\ host' = w.host
    /\ fx' = w.fx
    /\ hist' = h

(***************************************************************************)
(* Initial state: a primitive constructed with either positioning mode,    *)
(* not yet attached.                                                       *)
(***************************************************************************)
InitWith(v) ==
    /\ variant = v
    /\ workload \in Workloads
    /\ prim \in
        { [phase |-> "constructed", positioningMode |-> mode,
           hoveredMessageId |-> Null, dragState |-> NullObj,
           isDragging |-> FALSE, dragStartPos |-> NullObj,
           mouseDownHandler |-> FALSE, documentMouseMoveHandler |-> FALSE,
           documentMouseUpHandler |-> FALSE, crosshairMoveHandler |-> FALSE,
           clickSubscribed |-> FALSE] : mode \in {"fixed", "draggable"} }
    /\ strategy = FixedPositioningStrategy
    /\ state = [messages |-> <<>>, messagesArray |-> <<>>,
                arraySubscribed |-> TRUE, primSubscribed |-> TRUE]
    /\ dom = [mousedown |-> 0, mousemove |-> 0, mouseup |-> 0]
    /\ scheduler = [rafId |-> FALSE, callback |-> FALSE]
    /\ host = [timers |-> 0, pressedMouseMove |-> TRUE]
    /\ fx = NoFx
    /\ hist = IdleHist(NoSums, 0, [i \in Ids |-> NullObj])

Init == InitWith("retain")
InitRewrite == InitWith("rewrite")

(***************************************************************************)
(* Actions: one per public operation, event handler or scheduled callback. *)
(***************************************************************************)
Attach ==
    /\ prim.phase = "constructed"
    /\ Commit(AttachedOp(World), Settle(hist))

Detach ==
    /\ prim.phase = "attached"
    /\ Commit(DetachedOp(World),
              IdleHist(NoSums, hist.gestures, hist.anchors))

AddMessage(message) ==
    /\ prim.phase # "detached"
    /\ message.id \in workload.ids
    /\ Commit(StateAddMessage(World, message),
              [Settle(hist) EXCEPT !.anchors[message.id] =
                  [time |-> message.time, price |-> message.price]])

RemoveMessage(id) ==
    /\ prim.phase # "detached"
    /\ id \in workload.ids
    /\ Commit(StateRemoveMessage(World, id),
              [Settle(hist) EXCEPT !.anchors[id] = NullObj])

UpdateMessage(message) ==
    /\ prim.phase # "detached"
    /\ message.id \in workload.ids
    /\ Commit(StateUpdateMessage(World, message),
              IF MapHas(state.messages, message.id)
              THEN [Settle(hist) EXCEPT !.anchors[message.id] =
                      [time |-> message.time, price |-> message.price]]
              ELSE Settle(hist))

SetPositioningMode(mode) ==
    /\ prim.phase = "attached"
    /\ Commit(SetPositioningModeOp(World, mode),
              IdleHist(NoSums, hist.gestures, hist.anchors))

ApplyOptions(mode) ==
    /\ prim.phase = "attached"
    /\ Commit(ApplyOptionsOp(World, mode),
              IF mode = Null THEN Settle(hist)
              ELSE IdleHist(NoSums, hist.gestures, hist.anchors))

\* mousedown on the chart element.
MouseDown(event) ==
    /\ dom.mousedown > 0
    /\ hist.gestures < workload.gestures
    /\ LET w == OnMouseDown(World, event)
           hit == MessageAtPoint(World, event.clientX - RectLeft,
                                 event.clientY - RectTop)
       IN  Commit(w,
              IF hit = NullObj THEN Settle(hist)
              ELSE [phase |-> "down", id |-> hit.id, start |-> event,
                    last |-> event, far |-> FALSE, everFar |-> FALSE,
                    offsetsAtDown |-> strategy.pixelOffsets,
                    sum |-> FoldGesture(hist, strategy.pixelOffsets),
                    gestures |-> hist.gestures + 1,
                    anchors |-> hist.anchors])

\* mousemove on the document: every attached listener runs the same
\* handler on the same event, and a second run changes nothing.
DocumentMouseMove(event) ==
    /\ dom.mousemove > 0
    /\ LET w == OnDocumentMouseMove(World, event)
           isFar == Far(hist.start, event)
       IN  Commit(w,
              IF hist.phase = "down"
              THEN [hist EXCEPT !.last = event, !.far = isFar,
                                !.everFar = @ \/ isFar]
              ELSE Settle(hist))

\* mouseup on the document: the first listener ends the drag and removes
\* the registered pair; listeners left over find no Drag Record.
DocumentMouseUp ==
    /\ dom.mouseup > 0
    /\ LET w == OnDocumentMouseUp(World)
       IN  Commit(w,
              IF hist.phase = "down"
              THEN [hist EXCEPT !.phase = "up", !.start = NullObj,
                                !.last = NullObj,
                                !.sum = FoldGesture(hist, w.strategy.pixelOffsets)]
              ELSE Settle(hist))

Click(point) ==
    /\ prim.clickSubscribed
    /\ Commit(ClickHandler(World, point),
              IF hist.phase = "up"
              THEN [hist EXCEPT !.phase = "click", !.last = point]
              ELSE Settle(hist))

CrosshairMove(point) ==
    /\ prim.crosshairMoveHandler
    /\ Commit(OnCrosshairMove(World, point),
              Settle(hist))

\* The browser runs the pending animation frame callback.
AnimationFrame ==
    /\ scheduler.rafId
    /\ Commit(SchedulerFrame(World),
              Settle(hist))

\* The event loop runs one pending setTimeout(..., 0) callback.
TimerFire ==
    /\ host.timers > 0
    /\ Commit(ResetIsDragging([World EXCEPT !.host.timers = @ - 1]),
              Settle(hist))

Next ==
    \/ Attach
    \/ Detach
    \/ \E message \in MessageInputs : AddMessage(message)
    \/ \E id \in Ids : RemoveMessage(id)
    \/ \E message \in MessageInputs : UpdateMessage(message)
    \/ \E mode \in {"fixed", "draggable"} : SetPositioningMode(mode)
    \/ \E mode \in {Null, "fixed", "draggable"} : ApplyOptions(mode)
    \/ \E event \in ClientPoints : MouseDown(event)
    \/ \E event \in ClientPoints : DocumentMouseMove(event)
    \/ DocumentMouseUp
    \/ \E point \in Points \cup {NullObj} : Click(point)
    \/ \E point \in Points \cup {NullObj} : CrosshairMove(point)
    \/ AnimationFrame
    \/ TimerFire

Spec == Init /\ [][Next]_vars
SpecRewrite == InitRewrite /\ [][Next]_vars

(***************************************************************************)
(* Properties: listener hygiene.                                           *)
(***************************************************************************)
\* C1: in every reachable state at most one global move listener and at most
\* one global up listener are attached to the document, and none is attached
\* while no Drag Record exists (every attach has been matched by its remove).
GlobalListenersPaired ==
    /\ dom.mousemove <= 1
    /\ dom.mouseup <= 1
    /\ prim.dragState = NullObj => dom.mousemove = 0 /\ dom.mouseup = 0

\* C2: after detached() no global move/up listener is attached to the
\* document and no redraw callback is pending in the scheduler.
DetachedLeavesNothing ==
    prim.phase = "detached" =>
        dom.mousemove = 0 /\ dom.mouseup = 0 /\ ~SchedulerIsPending(World)

\* C3: a switch of the positioning mode from draggable to fixed while a Drag
\* Record exists ends with zero global move/up listeners attached.
ModeSwitchMidDragRemovesListeners ==
    [][ (/\ prim.dragState # NullObj
         /\ prim.positioningMode = "draggable"
         /\ prim'.positioningMode = "fixed")
        => (dom'.mousemove = 0 /\ dom'.mouseup = 0) ]_vars

(***************************************************************************)
(* Properties: click versus drag.                                          *)
(***************************************************************************)
\* The card with the given id is in the store and its box contains (x, y).
InCard(id, x, y) ==
    \E i \in 1 .. Len(Messages(World)) :
        /\ Messages(World)[i].id = id
        /\ CardContains(World, Messages(World)[i], x, y)

\* A gesture in draggable mode whose global moves all stayed below 5 px has
\* just been released (phase "up"), or a click followed the release.
ReleasedWithoutDrag(phase) ==
    /\ hist.phase = phase
    /\ ~hist.everFar
    /\ prim.positioningMode = "draggable"

\* C4 (as stated): after a pointer-down on a card, global moves below 5 px
\* and the release, the Pixel Offset Map is as it was at the pointer-down,
\* and a click dispatched next at a point inside the card's box opens that
\* card's URL.
SmallMoveIsClickInsideBox ==
    /\ ReleasedWithoutDrag("up") => strategy.pixelOffsets = hist.offsetsAtDown
    /\ (/\ ReleasedWithoutDrag("click")
        /\ hist.last # NullObj
        /\ InCard(hist.id, hist.last.x, hist.last.y))
       => fx.opened = UrlOf[hist.id]

\* C4 (amended): the same, for a click at a point where messageAt returns
\* the card.
SmallMoveIsClick ==
    /\ ReleasedWithoutDrag("up") => strategy.pixelOffsets = hist.offsetsAtDown
    /\ (/\ ReleasedWithoutDrag("click")
        /\ hist.last # NullObj
        /\ MessageAtPoint(World, hist.last.x, hist.last.y) # NullObj
        /\ MessageAtPoint(World, hist.last.x, hist.last.y).id = hist.id)
       => fx.opened = UrlOf[hist.id]

\* A click after a gesture that moved 3 px opened the card's URL.
SmallMoveIsClickWitness ==
    /\ ReleasedWithoutDrag("click")
    /\ hist.last # NullObj
    /\ strategy.kind = "draggable"
    /\ hist.offsetsAtDown[hist.id] # NullObj
    /\ fx.opened = UrlOf[hist.id]

\* A gesture in draggable mode whose latest global move was at least 5 px
\* from the pointer-down position has just been released (phase "up"), or a
\* click followed the release before the deferred flag reset ran.
ReleasedAfterDrag(phase) ==
    /\ hist.phase = phase
    /\ hist.far
    /\ prim.positioningMode = "draggable"

\* C5: a pointer-down on a card, a global move at least 5 px away and the
\* release change the dragged message's pixel offset, and a click delivered
\* after the release and before the deferred flag reset opens no URL.
DragMovesCardAndSuppressesClick ==
    /\ ReleasedAfterDrag("up") =>
          OffsetOf(strategy.pixelOffsets, hist.id)
              # OffsetOf(hist.offsetsAtDown, hist.id)
    /\ ReleasedAfterDrag("click") => fx.opened = Null

\* C6: while a Drag Record exists and is confirmed, the Hover Id is the
\* dragged message's id.
HoverPinnedWhileDragging ==
    (prim.dragState # NullObj /\ prim.isDragging)
        => prim.hoveredMessageId = prim.dragState.messageId

\* C7: outside a gesture in draggable mode, every message's pixel offset is
\* the componentwise sum, over the drag gestures on it, of (end pointer
\* position minus start pointer position).
OffsetIsSumOfDrags ==
    (prim.positioningMode = "draggable" /\ hist.phase # "down")
        => \A id \in Ids : OffsetOf(strategy.pixelOffsets, id) = hist.sum[id]

\* C8: in draggable mode every stored message's (time, price) is the one
\* last set through addMessage / updateMessage.
DragKeepsAnchors ==
    prim.positioningMode = "draggable"
        => \A i \in 1 .. Len(state.messages) :
              hist.anchors[state.messages[i].id]
                  = [time |-> state.messages[i].time,
                     price |-> state.messages[i].price]

(***************************************************************************)
(* Hit testing as a function of the store and the offsets: the primitive   *)
(* is attached, holds up to two messages and either resolver, and hitTest  *)
(* is called, or one pointer event is dispatched, at a point of a grid     *)
(* around the cards.  hist records the call: the point and, for hitTest,   *)
(* what _messageAtPoint found and what hitTest returned.                   *)
(***************************************************************************)
OffsetsTried == { NullObj, [offsetX |-> 2, offsetY |-> 1] }

StrategiesTried ==
    { FixedPositioningStrategy }
        \cup { [DraggablePositioningStrategy EXCEPT !.pixelOffsets = o] :
                 o \in [Ids -> OffsetsTried] }

StoresTried ==
    { <<>> } \cup { <<m>> : m \in MessageInputs }
        \cup { q \in { <<m, n>> : m \in MessageInputs, n \in MessageInputs } :
                   q[1].id # q[2].id }

GridX == (0 - 1) .. ((MaxTime - 1) * 3 + 2 + CardWidth + 1)
GridY == (0 - 1) .. (1 + 2 * CardPadding + 3 * LineHeight + 1)

InitHit ==
    /\ variant = "retain"
    /\ workload = [ids |-> Ids, gestures |-> 0]
    /\ strategy \in StrategiesTried
    /\ prim = [phase |-> "attached", positioningMode |-> strategy.kind,
               hoveredMessageId |-> Null, dragState |-> NullObj,
               isDragging |-> FALSE, dragStartPos |-> NullObj,
               mouseDownHandler |-> (strategy.kind = "draggable"),
               documentMouseMoveHandler |-> FALSE,
               documentMouseUpHandler |-> FALSE, crosshairMoveHandler |-> TRUE,
               clickSubscribed |-> TRUE]
    /\ \E store \in StoresTried :
          state = [messages |-> store, messagesArray |-> store,
                   arraySubscribed |-> TRUE, primSubscribed |-> TRUE]
    /\ dom = [mousedown |-> IF strategy.kind = "draggable" THEN 1 ELSE 0,
              mousemove |-> 0, mouseup |-> 0]
    /\ scheduler = [rafId |-> FALSE, callback |-> FALSE]
    /\ host = [timers |-> 0, pressedMouseMove |-> TRUE]
    /\ fx = NoFx
    /\ hist = [phase |-> "idle"]

\* hitTest(x, y), called by the host.
HitTestAt(x, y) ==
    /\ hist.phase = "idle"
    /\ Commit(World, [phase |-> "hitTest", x |-> x, y |-> y,
                      found |-> MessageAtPoint(World, x, y),
                      hit |-> HitTest(World, x, y)])

\* A hover dispatch with param.point = (x, y).
HoverAt(x, y) ==
    /\ hist.phase = "idle"
    /\ prim.crosshairMoveHandler
    /\ Commit(OnCrosshairMove(World, [x |-> x, y |-> y]),
              [phase |-> "hover", x |-> x, y |-> y])

\* A click with param.point = (x, y).
ClickAt(x, y) ==
    /\ hist.phase = "idle"
    /\ prim.clickSubscribed
    /\ Commit(ClickHandler(World, [x |-> x, y |-> y]),
              [phase |-> "click", x |-> x, y |-> y])

\* A mousedown on the chart element at local (x, y).
MouseDownAt(x, y) ==
    /\ hist.phase = "idle"
    /\ dom.mousedown > 0
    /\ Commit(OnMouseDown(World, [clientX |-> x + RectLeft,
                                  clientY |-> y + RectTop]),
              [phase |-> "mousedown", x |-> x, y |-> y])

NextHit ==
    \E x \in GridX, y \in GridY :
        \/ HitTestAt(x, y)
        \/ HoverAt(x, y)
        \/ ClickAt(x, y)
        \/ MouseDownAt(x, y)

SpecHit == InitHit /\ [][NextHit]_vars

(***************************************************************************)
(* Properties: hit testing.                                                *)
(***************************************************************************)
\* The resolved anchor of the message has both coordinates and (x, y) is in
\* [ax, ax + cardWidth] x [ay, ay + 2*cardPadding + 3*lineHeight].
InBox(message, x, y) ==
    LET ax == ResolveAnchor(strategy, message).x
        ay == ResolveAnchor(strategy, message).y
    IN  /\ ax # NullCoord /\ ay # NullCoord
        /\ ax <= x /\ x <= ax + CardWidth
        /\ ay <= y /\ y <= ay + 2 * CardPadding + 3 * LineHeight

\* The index in store order of the first message whose box contains (x, y);
\* 0 when there is none.
FirstInBox(x, y) ==
    LET hits == { i \in 1 .. Len(state.messages) : InBox(state.messages[i], x, y) }
    IN  IF hits = {} THEN 0 ELSE CHOOSE i \in hits : \A j \in hits : i <= j

\* C9 (as stated): messageAt(x, y) returns a message with a resolved anchor
\* if and only if (x, y) is in the message's box, and null outside every box.
MessageAtIffInBox ==
    hist.phase = "hitTest" =>
        /\ \A i \in 1 .. Len(state.messages) :
              (/\ ResolveAnchor(strategy, state.messages[i]).x # NullCoord
               /\ ResolveAnchor(strategy, state.messages[i]).y # NullCoord)
              => (hist.found = state.messages[i]
                    <=> InBox(state.messages[i], hist.x, hist.y))
        /\ FirstInBox(hist.x, hist.y) = 0 => hist.found = NullObj

\* C9 (amended): messageAt(x, y) returns a message if and only if (x, y) is
\* in the message's box and in the box of no message earlier in store order,
\* and null outside every box.
MessageAtIffFirstInBox ==
    hist.phase = "hitTest" =>
        /\ \A i \in 1 .. Len(state.messages) :
              hist.found = state.messages[i]
                  <=> (/\ InBox(state.messages[i], hist.x, hist.y)
                       /\ \A j \in 1 .. (i - 1) :
                             ~InBox(state.messages[j], hist.x, hist.y))
        /\ FirstInBox(hist.x, hist.y) = 0 => hist.found = NullObj

\* hitTest found the second of two cards at a corner of its box, which the
\* first card, overlapping the second in part, does not contain.
MessageAtIffFirstInBoxWitness ==
    /\ hist.phase = "hitTest"
    /\ Len(state.messages) = 2
    /\ hist.found = state.messages[2]
    /\ ResolveAnchor(strategy, hist.found).x + CardWidth = hist.x
    /\ ResolveAnchor(strategy, hist.found).y
          + 2 * CardPadding + 3 * LineHeight = hist.y
    /\ \E x \in GridX, y \in GridY :
          InBox(state.messages[1], x, y) /\ InBox(state.messages[2], x, y)

\* The first message in store order whose box contains (x, y), or null.
FirstMessageInBox(x, y) ==
    IF FirstInBox(x, y) = 0 THEN NullObj ELSE state.messages[FirstInBox(x, y)]

\* C10: messageAt returns the first message in store order whose box
\* contains the point, and hitTest, the hover dispatch, the click and the
\* drag start at that point all act on that message.
FirstInOrderWinsEverywhere ==
    hist.phase # "idle" =>
        LET first == FirstMessageInBox(hist.x, hist.y)
        IN  /\ hist.phase = "hitTest" =>
                  /\ hist.found = first
                  /\ hist.hit =
                        IF first = NullObj THEN NullObj
                        ELSE [externalId |-> <<"discord-message-", first.id>>,
                              zOrder |-> "top"]
            /\ hist.phase = "hover" =>
                  prim.hoveredMessageId
                      = IF first = NullObj THEN Null ELSE first.id
            /\ hist.phase = "click" =>
                  fx.opened = IF first = NullObj THEN Null ELSE first.discordUrl
            /\ hist.phase = "mousedown" =>
                  prim.dragState =
                      IF first = NullObj THEN NullObj
                      ELSE [messageId |-> first.id, message |-> first]

\* The pointer went down at a point in the boxes of both stored cards and
\* the Drag Record holds the first.
FirstInOrderWinsEverywhereWitness ==
    /\ hist.phase = "mousedown"
    /\ Len(state.messages) = 2
    /\ InBox(state.messages[1], hist.x, hist.y)
    /\ InBox(state.messages[2], hist.x, hist.y)
    /\ ResolveAnchor(strategy, state.messages[1])
          # ResolveAnchor(strategy, state.messages[2])
    /\ prim.dragState # NullObj
    /\ prim.dragState.messageId = state.messages[1].id

(***************************************************************************)
(* Properties: the Drag Record.                                            *)
(***************************************************************************)
\* C11: no step taken in fixed mode creates a Drag Record, attaches a global
\* move/up listener or disables host pan/scroll, also after the mode was
\* switched from draggable to fixed.
NoDragStartInFixedMode ==
    [][ (prim.positioningMode = "fixed" /\ prim'.positioningMode = "fixed")
        => /\ prim.dragState = NullObj => prim'.dragState = NullObj
           /\ dom'.mousemove <= dom.mousemove
           /\ dom'.mouseup <= dom.mouseup
           /\ host.pressedMouseMove => host'.pressedMouseMove ]_vars

\* C12: the single Drag Record field is set only by a pointer-down that hits
\* a card (and then holds that card), a Drag Record exists only during the
\* gesture started by that pointer-down, and every step that ends the gesture
\* (global pointer-up, mode switch, detachment) leaves no Drag Record.
DragRecordLifetime ==
    [][ /\ (prim'.dragState # NullObj /\ prim'.dragState # prim.dragState) =>
              /\ hist'.gestures = hist.gestures + 1
              /\ MessageAtPoint(World, hist'.start.clientX - RectLeft,
                                hist'.start.clientY - RectTop)
                    = prim'.dragState.message
              /\ prim'.dragState.messageId = prim'.dragState.message.id
        /\ prim'.dragState # NullObj => hist'.phase = "down"
        /\ (hist.phase = "down" /\ hist'.phase # "down") =>
              prim'.dragState = NullObj
        /\ prim'.phase = "detached" => prim'.dragState = NullObj ]_vars

\* The primitive was detached while a Drag Record existed (host pan/scroll
\* is still disabled), and the Drag Record is gone.
DragRecordLifetimeWitness ==
    /\ prim.phase = "detached"
    /\ ~host.pressedMouseMove
    /\ prim.dragState = NullObj

(***************************************************************************)
(* The message store on its own: a caller adds, removes and updates        *)
(* messages in any order and may destroy the store.  hist records the      *)
(* latest call (phase, the id it was given, the store before it) and what  *)
(* the caller has done so far: order lists the ids added and not removed   *)
(* since, by their first add since the last removal; latest is the value   *)
(* last given for each.                                                    *)
(***************************************************************************)
InitStore ==
    /\ variant = "retain"
    /\ workload = [ids |-> Ids, gestures |-> 0]
    /\ prim = [phase |-> "constructed", positioningMode |-> "fixed",
               hoveredMessageId |-> Null, dragState |-> NullObj,
               isDragging |-> FALSE, dragStartPos |-> NullObj,
               mouseDownHandler |-> FALSE, documentMouseMoveHandler |-> FALSE,
               documentMouseUpHandler |-> FALSE, crosshairMoveHandler |-> FALSE,
               clickSubscribed |-> FALSE]
    /\ strategy = FixedPositioningStrategy
    /\ state = [messages |-> <<>>, messagesArray |-> <<>>,
                arraySubscribed |-> TRUE, primSubscribed |-> TRUE]
    /\ dom = [mousedown |-> 0, mousemove |-> 0, mouseup |-> 0]
    /\ scheduler = [rafId |-> FALSE, callback |-> FALSE]
    /\ host = [timers |-> 0, pressedMouseMove |-> TRUE]
    /\ fx = NoFx
    /\ hist = [phase |-> "new", id |-> Null, before |-> state,
               order |-> <<>>, latest |-> [i \in Ids |-> NullObj]]

\* Messages the caller of the store passes: the store does not look into a
\* message beyond its id, so two values per id are told apart.
StoreInputs == { m \in MessageInputs : m.time \in {1, 2} /\ m.price = 1 }

\* The id is among those the caller added and did not remove since.
Listed(h, id) == \E i \in 1 .. Len(h.order) : h.order[i] = id

StoreAdd(message) ==
    /\ message.id \in workload.ids
    /\ Commit(StateAddMessage(World, message),
              [phase |-> "add", id |-> message.id, before |-> state,
               order |-> IF Listed(hist, message.id) THEN hist.order
                         ELSE Append(hist.order, message.id),
               latest |-> [hist.latest EXCEPT ![message.id] = message]])

StoreRemove(id) ==
    /\ id \in workload.ids
    /\ Commit(StateRemoveMessage(World, id),
              [phase |-> "remove", id |-> id, before |-> state,
               order |-> SelectSeq(hist.order, LAMBDA i : i # id),
               latest |-> [hist.latest EXCEPT ![id] = NullObj]])

StoreUpdate(message) ==
    /\ message.id \in workload.ids
    /\ Commit(StateUpdateMessage(World, message),
              [phase |-> "update", id |-> message.id, before |-> state,
               order |-> hist.order,
               latest |-> IF Listed(hist, message.id)
                          THEN [hist.latest EXCEPT ![message.id] = message]
                          ELSE hist.latest])

StoreDestroy ==
    /\ state.arraySubscribed
    /\ Commit(StateDestroy(World),
              [hist EXCEPT !.phase = "destroy", !.id = Null, !.before = state])

NextStore ==
    \/ \E message \in StoreInputs : StoreAdd(message)
    \/ \E id \in Ids : StoreRemove(id)
    \/ \E message \in StoreInputs : StoreUpdate(message)
    \/ StoreDestroy

SpecStore == InitStore /\ [][NextStore]_vars

(***************************************************************************)
(* Properties: the message store.                                          *)
(***************************************************************************)
\* The id given to the latest store call was a key of the Map before it.
WasStored ==
    \E i \in 1 .. Len(hist.before.messages) : hist.before.messages[i].id = hist.id

\* C13: update and remove with an id that is not in the store leave the Map
\* and the array of messages() unchanged and fire no notification; every
\* add, and every remove and update of a stored id, fires messagesChanged
\* exactly once.
StoreNotifiesOncePerChange ==
    /\ (hist.phase \in {"remove", "update"} /\ ~WasStored) =>
          /\ state.messages = hist.before.messages
          /\ state.messagesArray = hist.before.messagesArray
          /\ fx.changed = 0
    /\ (hist.phase = "add" \/ (hist.phase \in {"remove", "update"} /\ WasStored))
          => fx.changed = 1

\* An update with an id the store of one message does not hold has just
\* returned.
StoreNotifiesOncePerChangeWitness ==
    /\ hist.phase = "update"
    /\ ~WasStored
    /\ Len(state.messages) = 1
    /\ fx.changed = 0

\* C14: while the store is not destroyed, messages() is the list of the ids
\* added and not removed since, each once, in the order of their first add
\* since the last removal, each with the value last given for it.
MessagesAreLiveInInsertionOrder ==
    state.arraySubscribed =>
        /\ Len(Messages(World)) = Len(hist.order)
        /\ \A i \in 1 .. Len(hist.order) :
              Messages(World)[i] = hist.latest[hist.order[i]]
        /\ \A i, j \in 1 .. Len(Messages(World)) :
              Messages(World)[i].id = Messages(World)[j].id => i = j

\* Two ids are stored and the first has been given again, with another value,
\* by the latest add or update: it is still first.
MessagesAreLiveInInsertionOrderWitness ==
    /\ state.arraySubscribed
    /\ hist.phase \in {"add", "update"}
    /\ Len(Messages(World)) = 2
    /\ Len(hist.before.messagesArray) = 2
    /\ Messages(World)[1].id = hist.id
    /\ Messages(World)[1] # hist.before.messagesArray[1]

(***************************************************************************)
(* Properties: store changes during a gesture.                             *)
(***************************************************************************)
\* The message of the Drag Record is not in the store.
DraggedMessageGone ==
    /\ prim.dragState # NullObj
    /\ \A i \in 1 .. Len(state.messages) :
          state.messages[i].id # prim.dragState.messageId

\* C15: once the dragged message has been removed from the store, a global
\* move leaves the store and the Drag Record as they are, and the global
\* pointer-up leaves the store as it is (the message is not re-inserted),
\* fires no messagesChanged, clears the Drag Record and leaves no global
\* move/up listener attached.
RemovedMidDragEndsQuietly ==
    [][ /\ (/\ DraggedMessageGone
            /\ hist.phase = "down" /\ hist'.phase = "down"
            /\ hist'.gestures = hist.gestures
            /\ hist'.last # hist.last)
           => (state' = state /\ prim'.dragState = prim.dragState)
        /\ (DraggedMessageGone /\ hist.phase = "down" /\ hist'.phase = "up")
           => /\ state' = state
              /\ fx'.changed = 0
              /\ prim'.dragState = NullObj
              /\ dom'.mousemove = 0
              /\ dom'.mouseup = 0 ]_vars

(***************************************************************************)
(* Properties: anchors outside the visible range.                          *)
(***************************************************************************)
\* C16: the resolver returns a coordinate the host could not convert as
\* null; a stored message whose resolved anchor has a null coordinate is
\* not what messageAt / hitTest return, does not become the Hover Id by a
\* hover dispatch, gets no Drag Record from a pointer-down, and has no
\* record in the array of the pane view.
NullAnchorIsSkipped ==
    \A i \in 1 .. Len(state.messages) :
        LET message == state.messages[i]
            anchor == ResolveAnchor(strategy, message)
        IN  /\ TimeToCoordinate(message.time) = NullCoord => anchor.x = NullCoord
            /\ PriceToCoordinate(message.price) = NullCoord => anchor.y = NullCoord
            /\ (anchor.x = NullCoord \/ anchor.y = NullCoord) =>
                  /\ hist.phase = "hitTest" =>
                        /\ hist.found # message
                        /\ hist.hit # [externalId |-> <<"discord-message-", message.id>>,
                                       zOrder |-> "top"]
                  /\ hist.phase = "hover" => prim.hoveredMessageId # message.id
                  /\ hist.phase = "mousedown" =>
                        (prim.dragState = NullObj
                            \/ prim.dragState.messageId # message.id)
                  /\ \A k \in 1 .. Len(PaneViewUpdate(World)) :
                        PaneViewUpdate(World)[k].message.id # message.id

\* The pointer went down at (0, y) on the row of the only stored message,
\* which has a pixel offset and a time outside the visible range: no Drag
\* Record.
NullAnchorIsSkippedWitness ==
    /\ hist.phase = "mousedown"
    /\ Len(state.messages) = 1
    /\ strategy.pixelOffsets[state.messages[1].id] # NullObj
    /\ TimeToCoordinate(state.messages[1].time) = NullCoord
    /\ hist.x = 0
    /\ hist.y = PriceToCoordinate(state.messages[1].price)
    /\ prim.dragState = NullObj
    /\ PaneViewUpdate(World) = <<>>

(***************************************************************************)
(* Rendering as a function of the store, the offsets and the Hover Id:     *)
(* from the stores and resolvers of the hit-testing runs, an optional      *)
(* hover dispatch at a grid point sets the Hover Id, then the host calls   *)
(* updateAllViews() and hist records the array the pane view built.        *)
(***************************************************************************)
\* updateAllViews
UpdateAllViews ==
    /\ hist.phase \in {"idle", "hover"}
    /\ Commit(World, [phase |-> "update", data |-> PaneViewUpdate(World)])

NextView ==
    \/ \E x \in GridX, y \in GridY : HoverAt(x, y)
    \/ UpdateAllViews

SpecView == InitHit /\ [][NextView]_vars

(***************************************************************************)
(* Properties: the render snapshot.                                        *)
(***************************************************************************)
\* The messages of messages() whose resolved anchor has both coordinates.
VisibleMessages ==
    SelectSeq(state.messagesArray,
              LAMBDA m : /\ ResolveAnchor(strategy, m).x # NullCoord
                         /\ ResolveAnchor(strategy, m).y # NullCoord)

\* C17: the array built by update() has one record for each message of
\* messages() whose resolved anchor has both coordinates, in that order; a
\* record's hovered flag is set exactly when its message's id is the Hover
\* Id, so at most one record is hovered.
SnapshotListsVisibleMessages ==
    hist.phase = "update" =>
        /\ Len(hist.data) = Len(VisibleMessages)
        /\ \A k \in 1 .. Len(hist.data) :
              /\ hist.data[k].message = VisibleMessages[k]
              /\ hist.data[k].isHovered
                    <=> (VisibleMessages[k].id = prim.hoveredMessageId)
        /\ \A j, k \in 1 .. Len(hist.data) :
              (hist.data[j].isHovered /\ hist.data[k].isHovered) => j = k

\* Of two stored messages the first has a null coordinate; the array holds
\* one record, for the second, which is hovered.
SnapshotListsVisibleMessagesWitness ==
    /\ hist.phase = "update"
    /\ Len(state.messagesArray) = 2
    /\ Len(hist.data) = 1
    /\ hist.data[1].message = state.messagesArray[2]
    /\ hist.data[1].isHovered
    /\ prim.hoveredMessageId = state.messagesArray[2].id

\* C18: in every record of the array built by update(), the base anchor is
\* the host conversion of the message's time and price; in fixed mode the
\* displayed position is the base anchor, in draggable mode it is the base
\* anchor plus the message's pixel offset (plus zero without an entry).
SnapshotPositionIsBasePlusOffset ==
    hist.phase = "update" =>
        \A k \in 1 .. Len(hist.data) :
            LET r == hist.data[k]
                offset == OffsetOf(strategy.pixelOffsets, r.message.id)
            IN  /\ r.anchorX = TimeToCoordinate(r.message.time)
                /\ r.anchorY = PriceToCoordinate(r.message.price)
                /\ prim.positioningMode = "fixed" =>
                      (r.x = r.anchorX /\ r.y = r.anchorY)
                /\ prim.positioningMode = "draggable" =>
                      /\ r.x = r.anchorX + offset.offsetX
                      /\ r.y = r.anchorY + offset.offsetY

\* Two records in draggable mode, the first of a message with a pixel
\* offset, displayed away from its base anchor, the second of one without.
SnapshotPositionIsBasePlusOffsetWitness ==
    /\ hist.phase = "update"
    /\ prim.positioningMode = "draggable"
    /\ Len(hist.data) = 2
    /\ strategy.pixelOffsets[hist.data[1].message.id] # NullObj
    /\ hist.data[1].x # hist.data[1].anchorX
    /\ hist.data[1].y # hist.data[1].anchorY
    /\ strategy.pixelOffsets[hist.data[2].message.id] = NullObj
    /\ hist.data[2].x = hist.data[2].anchorX

(***************************************************************************)
(* Properties: the deferred reset of the drag-confirmed flag.              *)
(***************************************************************************)
\* The world after the step, as far as the click handler reads it.
WorldAfter ==
    [World EXCEPT !.prim = prim', !.strategy = strategy', !.state = state']

\* C19: right after the pointer-up of a confirmed drag, no step clears the
\* drag-confirmed flag before the reset that pointer-up deferred has run
\* (the newest timer: none is left pending after it), the start of a new
\* gesture, a mode switch and detachment apart; and once a deferred reset
\* has run, a click on a card opens that card's URL.
SuppressionLastsUntilDeferredReset ==
    [][ /\ (/\ hist.phase = "up"
            /\ prim.isDragging
            /\ prim'.dragState = NullObj
            /\ prim'.phase = prim.phase
            /\ strategy' = strategy
            /\ host'.timers > 0)
           => prim'.isDragging
        /\ host'.timers < host.timers =>
              /\ ~prim'.isDragging
              /\ \A point \in Points :
                    LET message == MessageAtPoint(WorldAfter, point.x, point.y)
                    IN  (prim'.clickSubscribed /\ message # NullObj) =>
                            ClickHandler(WorldAfter, point).fx.opened
                                = message.discordUrl ]_vars

(***************************************************************************)
(* Properties: host pan/scroll.                                            *)
(***************************************************************************)
\* C20: after every step that leaves a Drag Record (the pointer-down that
\* creates it included) host pan/scroll is disabled, and the global
\* pointer-up that ends the gesture re-enables it, whether or not the drag
\* was confirmed.
PanScrollOffWhileDragRecord ==
    [][ /\ prim'.dragState # NullObj => ~host'.pressedMouseMove
        /\ (prim.dragState # NullObj /\ hist.phase = "down" /\ hist'.phase = "up")
              => host'.pressedMouseMove ]_vars

\* A gesture that never moved 5 px has just been released: host pan/scroll
\* is enabled again and the Drag Record is gone.
PanScrollOffWhileDragRecordWitness ==
    /\ hist.phase = "up"
    /\ ~hist.everFar
    /\ ~prim.isDragging
    /\ prim.dragState = NullObj
    /\ host.pressedMouseMove

(***************************************************************************)
(* Properties: confirmation of a drag.                                     *)
(***************************************************************************)
\* The handler of the step made the named call.
DidCall(name) == \E i \in 1 .. Len(fx'.calls) : fx'.calls[i] = name

\* The step belongs to the gesture in progress and does not end it.
WithinGesture ==
    /\ hist.phase = "down"
    /\ hist'.phase = "down"
    /\ hist'.gestures = hist.gestures

\* C21: as long as no global move of the gesture was 5 px or more from the
\* pointer-down position, no step confirms the Drag Record, calls the
\* resolver's handleMouseMove, changes an offset or schedules a redraw; the
\* first global move that far confirms it and calls handleMouseMove.
ConfirmedByFirstFarMove ==
    [][ /\ (WithinGesture /\ ~hist'.everFar) =>
              /\ ~prim'.isDragging
              /\ ~DidCall("handleMouseMove")
              /\ strategy'.pixelOffsets = strategy.pixelOffsets
              /\ ~scheduler.rafId => ~scheduler'.rafId
        /\ (WithinGesture /\ ~hist.everFar /\ hist'.everFar) =>
              /\ ~prim.isDragging
              /\ prim'.isDragging
              /\ DidCall("handleMouseMove") ]_vars

\* C22: within a gesture, once the Drag Record is confirmed no step clears
\* the confirmed flag; the flag reset deferred by an earlier pointer-up
\* does not clear it.
ConfirmedUntilPointerUp ==
    [][ (WithinGesture /\ prim.isDragging /\ prim'.dragState # NullObj)
            => prim'.isDragging ]_vars

(***************************************************************************)
(* Properties: the end of a gesture.                                       *)
(***************************************************************************)
\* The step is the global pointer-up that ends the gesture in progress.
PointerUpStep == hist.phase = "down" /\ hist'.phase = "up"

\* C23: the global pointer-up of a confirmed Drag Record calls the
\* resolver's handleMouseUp and then the store's updateMessage, once each,
\* which fires messagesChanged once when the message is still stored; the
\* pointer-up of an unconfirmed one makes neither call and leaves the store
\* as it is.
PointerUpWritesBackOnce ==
    [][ /\ (PointerUpStep /\ prim.isDragging) =>
              /\ fx'.calls = <<"handleMouseUp", "updateMessage">>
              /\ fx'.changed =
                    IF \E i \in 1 .. Len(state.messages) :
                          state.messages[i].id = prim.dragState.messageId
                    THEN 1 ELSE 0
        /\ (PointerUpStep /\ ~prim.isDragging) =>
              /\ fx'.calls = <<>>
              /\ fx'.changed = 0
              /\ state' = state ]_vars

(***************************************************************************)
(* Properties: mode switch during a gesture.                               *)
(***************************************************************************)
\* The place of the named call among the calls of the step; 0 if not made.
CallIndex(name) ==
    IF DidCall(name)
    THEN CHOOSE i \in 1 .. Len(fx'.calls) : fx'.calls[i] = name
    ELSE 0

\* C24: a mode switch during a gesture ends the gesture (handleMouseUp and
\* the write-back if confirmed, document handlers removed, Drag Record
\* cleared) before it replaces the strategy, and makes no call after the
\* replacement; a handleMouseMove or handleMouseUp call is only made while a
\* Drag Record exists, on the strategy that holds the drag state of that
\* Drag Record's message; no Drag Record outlives a replacement.
GestureEndsBeforeStrategyIsReplaced ==
    [][ /\ (hist.phase = "down" /\ DidCall("new")) =>
              /\ CallIndex("new") = Len(fx'.calls)
              /\ prim.isDragging => DidCall("updateMessage")
              /\ (prim.isDragging /\ strategy.kind = "draggable")
                    => (/\ DidCall("handleMouseUp")
                        /\ CallIndex("handleMouseUp") < CallIndex("updateMessage"))
              /\ prim'.dragState = NullObj
              /\ ~prim'.documentMouseMoveHandler
              /\ ~prim'.documentMouseUpHandler
        /\ (DidCall("handleMouseMove") \/ DidCall("handleMouseUp")) =>
              /\ prim.dragState # NullObj
              /\ strategy.dragState # NullObj
              /\ strategy.dragState.messageId = prim.dragState.messageId
        /\ DidCall("new") =>
              (prim'.dragState = NullObj /\ strategy'.dragState = NullObj) ]_vars

\* A mode switch during a confirmed drag has just ended the drag and then
\* replaced the strategy.
GestureEndsBeforeStrategyIsReplacedWitness ==
    /\ fx.calls = <<"handleMouseUp", "updateMessage", "detach", "new">>
    /\ fx.changed = 1
    /\ prim.dragState = NullObj
    /\ host.timers > 0

(***************************************************************************)
(* Properties: detachment.                                                 *)
(***************************************************************************)
\* C25: after detached() no global move/up callback of the primitive is
\* left on the document to be invoked, and running the move or the up
\* handler changes nothing, also when the primitive was detached during a
\* gesture.
NoGlobalCallbackAfterDetach ==
    prim.phase = "detached" =>
        /\ dom.mousemove + dom.mouseup = 0
        /\ \A event \in ClientPoints : OnDocumentMouseMove(World, event) = World
        /\ OnDocumentMouseUp(World) = World

\* C26: whenever no Drag Record exists, host pan/scroll is enabled.
PanScrollOnWithoutDragRecord ==
    prim.dragState = NullObj => host.pressedMouseMove

(***************************************************************************)
(* Properties: mode and listeners, mode and strategy.                      *)
(***************************************************************************)
\* C27: while the primitive is attached, exactly one mousedown listener is on
\* the chart element in draggable mode and none in fixed mode; none after
\* detached().
MouseDownListenerIffDraggable ==
    /\ prim.phase = "attached" =>
          dom.mousedown = IF prim.positioningMode = "draggable" THEN 1 ELSE 0
    /\ prim.phase = "detached" => dom.mousedown = 0

\* C28: the active strategy is the fixed one exactly when
\* options.positioningMode is fixed, the draggable one exactly when it is
\* draggable.
StrategyMatchesMode ==
    strategy.kind = prim.positioningMode

(***************************************************************************)
(* AnimationScheduler on its own, with the browser's list of requested     *)
(* animation frames.  Here scheduler.rafId is a handle or NullHandle,      *)
(* scheduler.callback the identity of the stored callback or Null, and     *)
(* host.frames the handles the browser will still call back; a callback    *)
(* that runs appends its identity to fx.calls.                             *)
(***************************************************************************)
MaxHandles == 4

\* null for a frame handle; the browser's handles are positive.
NullHandle == 0

\* Callbacks the caller passes to schedule(); they do not call the scheduler.
Callbacks == {"cb1", "cb2"}

\* window.requestAnimationFrame: a fresh handle is queued.
RequestAnimationFrame(w) ==
    [w EXCEPT !.host.frames = @ \cup {w.host.nextHandle},
              !.host.nextHandle = @ + 1]

\* window.cancelAnimationFrame
CancelAnimationFrame(w, handle) ==
    [w EXCEPT !.host.frames = @ \ {handle}]

\* Variant: schedule without cancelling the frame requested before.
ScheduleKeepsFrame(w, callback) ==
    LET w2 == [w EXCEPT !.scheduler.callback = callback]
    IN  [RequestAnimationFrame(w2) EXCEPT !.scheduler.rafId = w2.host.nextHandle]

\* schedule
Schedule(w, callback) ==
    LET w1 == IF w.scheduler.rafId # NullHandle
              THEN CancelAnimationFrame(w, w.scheduler.rafId) ELSE w
        w2 == [w1 EXCEPT !.scheduler.callback = callback]
    IN  [RequestAnimationFrame(w2) EXCEPT !.scheduler.rafId = w2.host.nextHandle]

\* cancel
Cancel(w) ==
    LET w1 == IF w.scheduler.rafId # NullHandle
              THEN [CancelAnimationFrame(w, w.scheduler.rafId)
                       EXCEPT !.scheduler.rafId = NullHandle]
              ELSE w
    IN  [w1 EXCEPT !.scheduler.callback = Null]

\* isPending
IsPending(w) == w.scheduler.rafId # NullHandle

\* this._callback(): the callback runs; the callback "again" calls
\* schedule() with "cb1" from inside.
RunCallback(w, callback) ==
    IF callback = "again"
    THEN Schedule([w EXCEPT !.fx.calls = Append(@, callback)], "cb1")
    ELSE [w EXCEPT !.fx.calls = Append(@, callback)]

\* The closure schedule() hands to requestAnimationFrame, run by the browser
\* for a handle that is still queued.
FrameCallback(w, handle) ==
    LET w1 == [w EXCEPT !.host.frames = @ \ {handle},
                        !.scheduler.rafId = NullHandle]
    IN  IF w1.scheduler.callback # Null
        THEN [RunCallback(w1, w1.scheduler.callback)
                 EXCEPT !.scheduler.callback = Null]
        ELSE w1

InitSched ==
    /\ variant = "retain"
    /\ workload = [ids |-> {}, gestures |-> 0]
    /\ prim = [phase |-> "constructed", positioningMode |-> "fixed",
               hoveredMessageId |-> Null, dragState |-> NullObj,
               isDragging |-> FALSE, dragStartPos |-> NullObj,
               mouseDownHandler |-> FALSE, documentMouseMoveHandler |-> FALSE,
               documentMouseUpHandler |-> FALSE, crosshairMoveHandler |-> FALSE,
               clickSubscribed |-> FALSE]
    /\ strategy = FixedPositioningStrategy
    /\ state = [messages |-> <<>>, messagesArray |-> <<>>,
                arraySubscribed |-> TRUE, primSubscribed |-> TRUE]
    /\ dom = [mousedown |-> 0, mousemove |-> 0, mouseup |-> 0]
    /\ scheduler = [rafId |-> NullHandle, callback |-> Null]
    /\ host = [frames |-> {}, nextHandle |-> 1]
    /\ fx = NoFx
    /\ hist = [op |-> "new", scheduled |-> <<>>, fired |-> <<>>]

\* hist.scheduled: the callbacks passed to schedule() since the last frame or
\* cancel(); hist.fired: that list as it was when the last frame ran.
SchedSchedule(callback) ==
    /\ host.nextHandle <= MaxHandles
    /\ Commit(Schedule(World, callback),
              [hist EXCEPT !.op = "schedule",
                           !.scheduled = Append(@, callback)])

SchedCancel ==
    /\ hist.op # "cancel"
    /\ Commit(Cancel(World),
              [hist EXCEPT !.op = "cancel", !.scheduled = <<>>])

SchedFrame ==
    \E handle \in host.frames :
        Commit(FrameCallback(World, handle),
               [op |-> "frame",
                scheduled |-> IF scheduler.callback = "again"
                              THEN <<"cb1">> ELSE <<>>,
                fired |-> hist.scheduled])

NextSched ==
    \/ \E callback \in Callbacks : SchedSchedule(callback)
    \/ SchedCancel
    \/ SchedFrame

SpecSched == InitSched /\ [][NextSched]_vars

\* The same scheduler, where the caller may also pass a callback that
\* schedules from inside.
NestedCallbacks == Callbacks \cup {"again"}

NextSchedNested ==
    \/ \E callback \in NestedCallbacks : SchedSchedule(callback)
    \/ SchedCancel
    \/ SchedFrame

SpecSchedNested == InitSched /\ [][NextSchedNested]_vars

(***************************************************************************)
(* Properties: the animation-frame scheduler.                              *)
(***************************************************************************)
\* C29: at most one frame is requested at any time and isPending() tells
\* whether one is; a frame runs exactly the callback of the last schedule()
\* call made since the previous frame and nothing else runs a callback; after
\* cancel() nothing is requested, isPending() is false and no callback
\* scheduled before it runs.
SchedulerRunsLastScheduledOnce ==
    [][ /\ Cardinality(host'.frames) <= 1
        /\ (scheduler'.rafId # NullHandle) <=> (host'.frames # {})
        /\ hist'.op = "frame" =>
              /\ hist.scheduled # <<>>
              /\ fx'.calls = <<hist.scheduled[Len(hist.scheduled)]>>
              /\ host'.frames = {}
        /\ hist'.op # "frame" => fx'.calls = <<>>
        /\ hist'.op = "cancel" =>
              /\ host'.frames = {}
              /\ scheduler'.rafId = NullHandle ]_vars

SchedulerRunsLastScheduledOnceWitness ==
    /\ hist.op = "frame"
    /\ hist.fired = <<"cb1", "cb2">>
    /\ fx.calls = <<"cb2">>
    /\ ~IsPending(World)

(***************************************************************************)
(* Properties: hover.                                                      *)
(***************************************************************************)
\* The Hover Id a hover dispatch with this point has to leave: the id of the
\* card being dragged once the drag is confirmed, otherwise the id of the
\* message at the point, none without a point or a hit.
HoverTarget(point) ==
    IF hist.phase = "down" /\ prim.isDragging THEN hist.id
    ELSE IF point = NullObj THEN Null
    ELSE LET message == MessageAtPoint(World, point.x, point.y)
         IN  IF message = NullObj THEN Null ELSE message.id

\* C30: in every reachable state a hover dispatch, with any point or none,
\* leaves the Hover Id at the dragged message's id when a confirmed Drag
\* Record exists and otherwise at the id of the message at the point (none
\* without a hit or a point), and requests a redraw exactly when that differs
\* from the Hover Id before the dispatch.
HoverDispatchSetsHoverId ==
    \A point \in Points \cup {NullObj} :
        LET w == OnCrosshairMove(World, point)
        IN  /\ w.prim.hoveredMessageId = HoverTarget(point)
            /\ w.fx.updateRequested <=> HoverTarget(point) # prim.hoveredMessageId

\* A hover dispatch during a confirmed drag has just pinned the Hover Id to
\* the dragged card and requested a redraw, at a moment when a dispatch with
\* no point would otherwise have cleared it.
HoverDispatchSetsHoverIdWitness ==
    /\ hist.phase = "down"
    /\ prim.isDragging
    /\ prim.hoveredMessageId = hist.id
    /\ fx.updateRequested
    /\ fx.changed = 0
    /\ fx.calls = <<>>
    /\ scheduler.rafId
    /\ OnCrosshairMove(World, NullObj) = World

(***************************************************************************)
(* Properties: the Pixel Offset Map.                                       *)
(***************************************************************************)
\* The resolver accepts a handleMouseDown for the message: its displayed
\* position resolves.
Resolves(strat, message) ==
    /\ DraggableResolveAnchor(strat, message).x # NullCoord
    /\ DraggableResolveAnchor(strat, message).y # NullCoord

\* C31: in every reachable state in which the draggable resolver has no drag
\* in progress, handleMouseDown for any stored message at any point leaves
\* the Pixel Offset Map as it is, and, where it is accepted, a
\* handleMouseMove at the same point leaves the message's offset at the value
\* it had before (zero without an entry).
SecondDragContinues ==
    (strategy.kind = "draggable" /\ strategy.dragState = NullObj) =>
        \A i \in 1 .. Len(state.messages), p \in Points :
            LET message == state.messages[i]
                began == DraggableHandleMouseDown(variant, strategy, message, p.x, p.y)
                moved == DraggableHandleMouseMove(began, message, p.x, p.y)
            IN  /\ began.pixelOffsets = strategy.pixelOffsets
                /\ Resolves(strategy, message) =>
                      OffsetOf(moved.pixelOffsets, message.id)
                          = OffsetOf(strategy.pixelOffsets, message.id)

\* C32: in every step that starts and ends attached and in draggable mode, an
\* entry of the Pixel Offset Map changes only if the step is a confirmed
\* drag-move of the Drag Record's message, which sets that entry; every
\* other step (pointer-up, hover, click, store calls) leaves the map as it
\* is.
OffsetsChangeOnlyByDragMove ==
    [][ ( /\ prim.phase = "attached" /\ prim'.phase = "attached"
          /\ prim.positioningMode = "draggable"
          /\ prim'.positioningMode = "draggable" ) =>
            \A id \in Ids :
                strategy'.pixelOffsets[id] # strategy.pixelOffsets[id] =>
                    /\ DidCall("handleMouseMove")
                    /\ prim'.isDragging
                    /\ prim.dragState # NullObj
                    /\ prim.dragState.messageId = id
                    /\ strategy'.pixelOffsets[id] # NullObj ]_vars

\* C33: a setPositioningMode or applyOptions call that sets the mode to
\* draggable while it is draggable and no Drag Record exists leaves the Pixel
\* Offset Map and the resolved position of every stored message unchanged.
DraggableAgainKeepsOffsets ==
    [][ ( /\ DidCall("new")
          /\ prim.positioningMode = "draggable"
          /\ prim'.positioningMode = "draggable"
          /\ prim.dragState = NullObj ) =>
            /\ strategy'.pixelOffsets = strategy.pixelOffsets
            /\ \A i \in 1 .. Len(state.messages) :
                   ResolveAnchor(strategy', state.messages[i])
                       = ResolveAnchor(strategy, state.messages[i]) ]_vars

\* C34: in every reachable state with a Drag Record, a global move to any
\* point leaves the offset entry and the resolved position of every message
\* other than the Drag Record's unchanged (and the store as it is); and the
\* resolver's handleMouseMove for a message other than the one its drag
\* state names changes nothing.
DragTouchesOnlyDraggedEntry ==
    /\ prim.dragState # NullObj =>
          \A event \in ClientPoints :
              LET w == OnDocumentMouseMove(World, event)
              IN  /\ w.state = state
                  /\ \A id \in Ids \ {prim.dragState.messageId} :
                         w.strategy.pixelOffsets[id] = strategy.pixelOffsets[id]
                  /\ \A i \in 1 .. Len(state.messages) :
                         state.messages[i].id # prim.dragState.messageId =>
                             ResolveAnchor(w.strategy, state.messages[i])
                                 = ResolveAnchor(strategy, state.messages[i])
    /\ (strategy.kind = "draggable" /\ strategy.dragState # NullObj) =>
          \A message \in MessageInputs, p \in Points :
              message.id # strategy.dragState.messageId =>
                  DraggableHandleMouseMove(strategy, message, p.x, p.y) = strategy

\* Two cards are shown and a confirmed move has just given the dragged one
\* an offset; the other card has none and resolves to its anchor.
DragTouchesOnlyDraggedEntryWitness ==
    /\ hist.phase = "down"
    /\ prim.dragState # NullObj
    /\ fx.calls = <<"handleMouseMove">>
    /\ Len(state.messages) = 2
    /\ strategy.pixelOffsets[hist.id] # NullObj
    /\ strategy.pixelOffsets[hist.id] # Zero
    /\ \A i \in 1 .. 2 :
           state.messages[i].id # hist.id =>
               /\ strategy.pixelOffsets[state.messages[i].id] = NullObj
               /\ Resolves(strategy, state.messages[i])

(***************************************************************************)
(* Properties: handlers that find nothing to do.                           *)
(***************************************************************************)
\* C35: in every reachable state without a Drag Record, the global
\* pointer-up handler and the global pointer-move handler (with any pointer
\* position) leave the whole state as it is and have no effect: no
\* notification, no redraw request, no call to the resolver or the store.
PointerEventWithoutDragRecordIsNoOp ==
    prim.dragState = NullObj =>
        /\ OnDocumentMouseUp(World) = World
        /\ \A event \in ClientPoints : OnDocumentMouseMove(World, event) = World

\* While attached, a global listener pair is still on the document although
\* the gesture was released and no Drag Record exists; the step that led
\* here had no effect.
PointerEventWithoutDragRecordIsNoOpWitness ==
    /\ prim.phase = "attached"
    /\ prim.dragState = NullObj
    /\ host.pressedMouseMove
    /\ dom.mousemove > 0
    /\ dom.mouseup > 0
    /\ hist.phase = "idle"
    /\ fx = NoFx

\* C36: in every reachable state, _removeDocumentDragListeners and
\* _detachDragListeners applied twice leave what one application leaves;
\* with no listener on the document the first changes nothing; and applied
\* to the state a pointer-up, a mode switch or detached() leaves, each
\* changes nothing.
CleanupIsIdempotent ==
    /\ RemoveDocumentDragListeners(RemoveDocumentDragListeners(World))
           = RemoveDocumentDragListeners(World)
    /\ DetachDragListeners(DetachDragListeners(World)) = DetachDragListeners(World)
    /\ (dom.mousemove = 0 /\ dom.mouseup = 0) =>
           RemoveDocumentDragListeners(World) = World
    /\ RemoveDocumentDragListeners(OnDocumentMouseUp(World)) = OnDocumentMouseUp(World)
    /\ \A mode \in {"fixed", "draggable"} :
           RemoveDocumentDragListeners(UpdatePositioningMode(World, mode))
               = UpdatePositioningMode(World, mode)
    /\ RemoveDocumentDragListeners(DetachedOp(World)) = DetachedOp(World)
    /\ DetachDragListeners(DetachedOp(World)) = DetachedOp(World)

\* detached() ran during a gesture: it called the cleanup with the listener
\* pair attached and, through _detachDragListeners, once more without.
CleanupIsIdempotentWitness ==
    /\ prim.phase = "detached"
    /\ ~host.pressedMouseMove
    /\ prim.dragState = NullObj
    /\ dom.mousemove = 0
    /\ dom.mouseup = 0

(***************************************************************************)
(* Properties: the anchor-rewriting resolver.                              *)
(***************************************************************************)
\* The displayed position of the message resolves and converts back to a
\* time and a price.
ConvertsBack(strat, message) ==
    /\ Resolves(strat, message)
    /\ CoordinateToTime(DraggableResolveAnchor(strat, message).x) # NullCoord
    /\ CoordinateToPrice(DraggableResolveAnchor(strat, message).y) # NullCoord

\* C37: with the anchor-rewriting resolver, in every reachable state with a
\* Drag Record whose message the resolver's drag state names, handleMouseUp
\* for that message clears the resolver's drag state and either rewrites
\* both time and price to the converted displayed position and deletes the
\* message's offset entry (when the position resolves and both conversions
\* succeed), or leaves time, price and the whole Pixel Offset Map unchanged;
\* other messages' entries are never touched.
DragEndRewritesAllOrNothing ==
    ( /\ variant = "rewrite"
      /\ strategy.kind = "draggable"
      /\ prim.dragState # NullObj
      /\ strategy.dragState # NullObj
      /\ strategy.dragState.messageId = prim.dragState.messageId ) =>
        LET message == prim.dragState.message
            anchor == DraggableResolveAnchor(strategy, message)
            ended == DraggableHandleMouseUp(variant, strategy, message)
        IN  /\ ended.strat.dragState = NullObj
            /\ \A id \in Ids \ {message.id} :
                   ended.strat.pixelOffsets[id] = strategy.pixelOffsets[id]
            /\ IF ConvertsBack(strategy, message)
               THEN /\ ended.message.time = CoordinateToTime(anchor.x)
                    /\ ended.message.price = CoordinateToPrice(anchor.y)
                    /\ ended.strat.pixelOffsets[message.id] = NullObj
               ELSE /\ ended.message = message
                    /\ ended.strat.pixelOffsets = strategy.pixelOffsets

\* A confirmed drag has just been released at a position that converts
\* back: the stored message has a new time, and its offset entry is gone.
DragEndRewritesAllOrNothingWitness ==
    /\ variant = "rewrite"
    /\ hist.phase = "up"
    /\ fx.calls = <<"handleMouseUp", "updateMessage">>
    /\ strategy.pixelOffsets[hist.id] = NullObj
    /\ \E i \in 1 .. Len(state.messages) :
           /\ state.messages[i].id = hist.id
           /\ hist.anchors[hist.id] # NullObj
           /\ state.messages[i].time # hist.anchors[hist.id].time

(***************************************************************************)
(* Properties: hover and store.                                            *)
(***************************************************************************)
\* C38: in every reachable state the Hover Id is none or the id of a message
\* in the store.
HoverIdIsStored ==
    prim.hoveredMessageId = Null \/ MapHas(state.messages, prim.hoveredMessageId)

(***************************************************************************)
(* Properties: the resolver's drag state.                                  *)
(***************************************************************************)
\* C39: in every reachable state the resolver's drag state is null unless a
\* Drag Record exists and names the same message; and a handleMouseDown the
\* draggable resolver refuses (the message's position does not resolve)
\* leaves the resolver as it is.
ResolverDragStateFollowsDragRecord ==
    /\ strategy.dragState # NullObj =>
          /\ prim.dragState # NullObj
          /\ prim.dragState.messageId = strategy.dragState.messageId
    /\ strategy.kind = "draggable" =>
          \A message \in MessageInputs, p \in Points :
              ~Resolves(strategy, message) =>
                  DraggableHandleMouseDown(variant, strategy, message, p.x, p.y)
                      = strategy

(***************************************************************************)
(* Properties: the scheduler with callbacks that schedule.                 *)
(***************************************************************************)
\* C40: after every step, a callback is stored whenever isPending() is true;
\* and a frame that finds callbacks scheduled since the previous frame and
\* not cancelled runs the last of them, once, also when that callback was
\* scheduled from inside a running callback.
ScheduledCallbackRuns ==
    [][ /\ scheduler'.rafId # NullHandle => scheduler'.callback # Null
        /\ (hist'.op = "frame" /\ hist.scheduled # <<>>) =>
              /\ fx'.calls # <<>>
              /\ fx'.calls[1] = hist.scheduled[Len(hist.scheduled)]
              /\ Len(fx'.calls) = 1 ]_vars

====
